---- MODULE Spec2Model ----
(***************************************************************************)
(* State-machine model of the Anchor escrow program                        *)
(* (programs/escrow/src/lib.rs): the three instructions initialize,        *)
(* cancel and exchange, the account validation that the #[derive(Accounts)]*)
(* structs declare, and the token-program calls the handlers make.        *)
(*                                                                         *)
(* One step of the model is one transaction holding one instruction.  The  *)
(* ledger applies an instruction all-or-nothing: an instruction that       *)
(* returns an error leaves every account as it was.                        *)
(***************************************************************************)
EXTENDS Integers, FiniteSets, Sequences, TLC

(***************************************************************************)
(* Bounds of the model.                                                    *)
(***************************************************************************)
MaxAmount == 1      \* largest amount an instruction argument takes
RentDeposit == 1    \* lamports an account holds while it exists

(***************************************************************************)
(* Identities and addresses.                                               *)
(***************************************************************************)
Wallets == {"alice", "bob"}

\* Pubkey::find_program_address(&[ESCROW_PDA_SEED], program_id)
VaultAuthority == "pda"

\* the address derived from seeds = [b"token-seed"]
VaultAccount == "vault"

Authorities == Wallets \cup {VaultAuthority}

Mints == {"A", "B"}

\* token accounts that exist from the start: alice's A and B accounts,
\* bob's A and B accounts, a second A account of bob and one of alice
UserAccts == {"iA", "iB", "tA", "tB", "xA", "yA"}

TokAccts == UserAccts \cup {VaultAccount}

\* addresses allocated for an EscrowAccount
Slots == {"e1", "e2"}

InitLamports == RentDeposit

VARIABLES
    tok,        \* token accounts: address -> [live, mint, owner, amount]
    escrow,     \* EscrowAccount addresses: slot -> record with its state st
    lamports,   \* wallet -> lamports
    last        \* the last instruction: [op, res, cpis, by, slot]

vars == <<tok, escrow, lamports, last>>

NoAccount == [live |-> FALSE, mint |-> "none", owner |-> "none", amount |-> 0]

TokenAcct(m, o, n) == [live |-> TRUE, mint |-> m, owner |-> o, amount |-> n]

\* struct EscrowAccount, with st: "zero" (allocated, discriminator unset),
\* "open" (holds an offer) or "closed" (closed by close = initializer)
EscrowAccount(st, key, dep, rcv, ia, ta) ==
    [st |-> st,
     initializer_key |-> key,
     initializer_deposit_token_account |-> dep,
     initializer_receive_token_account |-> rcv,
     initializer_amount |-> ia,
     taker_amount |-> ta]

EmptyEscrow(st) == EscrowAccount(st, "none", "none", "none", 0, 0)

(***************************************************************************)
(* The token program (the asset-transfer primitive).  Each call returns    *)
(* [err, tok] or [err, tok, lamports]; err = "Ok" on success.              *)
(***************************************************************************)
TokenTransfer(t, from, to, authority, signers, amount) ==
    IF ~t[from].live \/ ~t[to].live THEN [err |-> "RecordNotFound", tok |-> t]
    ELSE IF t[from].amount < amount THEN [err |-> "InsufficientFunds", tok |-> t]
    ELSE IF t[from].mint # t[to].mint THEN [err |-> "MintMismatch", tok |-> t]
    ELSE IF t[from].owner # authority \/ authority \notin signers
         THEN [err |-> "Unauthorized", tok |-> t]
    ELSE IF from = to THEN [err |-> "Ok", tok |-> t]
    ELSE [err |-> "Ok",
          tok |-> [t EXCEPT ![from].amount = @ - amount,
                            ![to].amount = @ + amount]]

TokenSetAuthority(t, account, current, signers, new) ==
    IF ~t[account].live THEN [err |-> "RecordNotFound", tok |-> t]
    ELSE IF t[account].owner # current \/ current \notin signers
         THEN [err |-> "Unauthorized", tok |-> t]
    ELSE [err |-> "Ok", tok |-> [t EXCEPT ![account].owner = new]]

TokenClose(t, lam, account, destination, authority, signers) ==
    IF ~t[account].live
    THEN [err |-> "RecordNotFound", tok |-> t, lamports |-> lam]
    ELSE IF t[account].amount # 0
    THEN [err |-> "NonNativeHasBalance", tok |-> t, lamports |-> lam]
    ELSE IF t[account].owner # authority \/ authority \notin signers
    THEN [err |-> "Unauthorized", tok |-> t, lamports |-> lam]
    ELSE [err |-> "Ok",
          tok |-> [t EXCEPT ![account] = NoAccount],
          lamports |-> [lam EXCEPT ![destination] = @ + RentDeposit]]

(***************************************************************************)
(* Outcome of an instruction: the result, the number of token-program      *)
(* calls that had succeeded when it returned, and the accounts as the      *)
(* instruction left them.                                                  *)
(***************************************************************************)
Outcome(res, n, t, e, l) ==
    [res |-> res, cpis |-> n, tok |-> t, escrow |-> e, lamports |-> l]

Rejected(res) == Outcome(res, 0, tok, escrow, lamports)

\* the ledger discards every change of an instruction that returned an error
Commit(out) ==
    IF out.res = "Ok" THEN out
    ELSE Outcome(out.res, out.cpis, tok, escrow, lamports)

(***************************************************************************)
(* initialize.  a = [by, initializer, mint, deposit, receive, slot,        *)
(* initializer_amount, taker_amount]: by is the wallet that signed the     *)
(* transaction, the other fields are the accounts and arguments supplied.  *)
(***************************************************************************)
InitializeArgs ==
    [by : Wallets, initializer : Wallets, mint : Mints,
     deposit : {"iA", "iB"}, receive : {"iB"}, slot : Slots,
     initializer_amount : 0..MaxAmount, taker_amount : 0..MaxAmount]

\* #[derive(Accounts)] struct Initialize, without the checks named in skip:
\* the accounts are loaded, then the init and zero accounts are set up (the
\* payer of init has to sign), then the constraints are evaluated
InitializeAccountsExcept(a, skip) ==
    IF ~tok[a.deposit].live \/ ~tok[a.receive].live THEN "RecordNotFound"
    ELSE IF a.initializer # a.by THEN "Unauthorized"
    ELSE IF "vault" \notin skip /\ tok[VaultAccount].live THEN "AccountInUse"
    ELSE IF lamports[a.initializer] < RentDeposit THEN "InsufficientLamports"
    ELSE IF escrow[a.slot].st = "closed" THEN "RecordNotFound"
    ELSE IF escrow[a.slot].st # "zero" THEN "SlotInUse"
    ELSE IF "amount" \notin skip
            /\ ~(tok[a.deposit].amount >= a.initializer_amount)
         THEN "InsufficientFunds"
    ELSE "Ok"

InitializeAccounts_NoAmountCheck(a) == InitializeAccountsExcept(a, {"amount"})

InitializeAccounts_NoVaultCheck(a) == InitializeAccountsExcept(a, {"vault"})

InitializeAccounts(a) == InitializeAccountsExcept(a, {})

\* vault_account: init, payer = initializer, token::mint = mint,
\* token::authority = initializer
VaultInit(a) ==
    [tok |-> [tok EXCEPT ![VaultAccount] = TokenAcct(a.mint, a.initializer, 0)],
     lamports |-> [lamports EXCEPT ![a.initializer] = @ - RentDeposit]]

\* initialize without the token::set_authority call
InitializeHandler_NoSetAuthority(a, t0, l0) ==
    LET e1 == [escrow EXCEPT ![a.slot] =
                  EscrowAccount("open", a.initializer, a.deposit, a.receive,
                                a.initializer_amount, a.taker_amount)]
        s2 == TokenTransfer(t0, a.deposit, VaultAccount, a.initializer,
                            {a.by}, e1[a.slot].initializer_amount)
    IN  IF s2.err # "Ok" THEN Outcome(s2.err, 0, s2.tok, e1, l0)
        ELSE Outcome("Ok", 1, s2.tok, e1, l0)

\* initialize transferring taker_amount instead of initializer_amount
InitializeHandler_TransfersTakerAmount(a, t0, l0) ==
    LET e1 == [escrow EXCEPT ![a.slot] =
                  EscrowAccount("open", a.initializer, a.deposit, a.receive,
                                a.initializer_amount, a.taker_amount)]
        s1 == TokenSetAuthority(t0, VaultAccount, a.initializer, {a.by},
                                VaultAuthority)
        s2 == TokenTransfer(s1.tok, a.deposit, VaultAccount, a.initializer,
                            {a.by}, e1[a.slot].taker_amount)
    IN  IF s1.err # "Ok" THEN Outcome(s1.err, 0, s1.tok, e1, l0)
        ELSE IF s2.err # "Ok" THEN Outcome(s2.err, 1, s2.tok, e1, l0)
        ELSE Outcome("Ok", 2, s2.tok, e1, l0)

\* pub fn initialize
InitializeHandler(a, t0, l0) ==
    LET e1 == [escrow EXCEPT ![a.slot] =
                  EscrowAccount("open", a.initializer, a.deposit, a.receive,
                                a.initializer_amount, a.taker_amount)]
        s1 == TokenSetAuthority(t0, VaultAccount, a.initializer, {a.by},
                                VaultAuthority)
        s2 == TokenTransfer(s1.tok, a.deposit, VaultAccount, a.initializer,
                            {a.by}, e1[a.slot].initializer_amount)
    IN  IF s1.err # "Ok" THEN Outcome(s1.err, 0, s1.tok, e1, l0)
        ELSE IF s2.err # "Ok" THEN Outcome(s2.err, 1, s2.tok, e1, l0)
        ELSE Outcome("Ok", 2, s2.tok, e1, l0)

InitializeIx(a) ==
    LET v == InitializeAccounts(a)
        c == VaultInit(a)
    IN  IF v # "Ok" THEN Rejected(v)
        ELSE InitializeHandler(a, c.tok, c.lamports)

InitializeOut(a) == Commit(InitializeIx(a))

(***************************************************************************)
(* cancel.  a = [by, initializer, vault, vault_authority, deposit, slot].  *)
(***************************************************************************)
CancelArgs ==
    [by : Wallets, initializer : Wallets, vault : {VaultAccount, "xA", "yA"},
     vault_authority : Authorities, deposit : {"iA", "iB"}, slot : Slots]

\* #[derive(Accounts)] struct Cancel, without the checks named in skip
CancelAccountsExcept(a, skip) ==
    LET rec == escrow[a.slot]
    IN  IF ~tok[a.vault].live \/ ~tok[a.deposit].live THEN "RecordNotFound"
        ELSE IF rec.st # "open" THEN "RecordNotFound"
        ELSE IF "signer" \notin skip /\ a.initializer # a.by THEN "Unauthorized"
        ELSE IF "key" \notin skip /\ ~(rec.initializer_key = a.initializer)
             THEN "Unauthorized"
        ELSE IF "deposit" \notin skip
                /\ ~(rec.initializer_deposit_token_account = a.deposit)
             THEN "AccountMismatch"
        ELSE "Ok"

CancelAccounts_NoSigner(a) == CancelAccountsExcept(a, {"signer"})

CancelAccounts_NoKeyCheck(a) == CancelAccountsExcept(a, {"key"})

CancelAccounts_NoDepositCheck(a) == CancelAccountsExcept(a, {"deposit"})

CancelAccounts(a) == CancelAccountsExcept(a, {})

CloseEscrow_Skipped(out, slot, initializer) == out

\* close = initializer, applied when the handler has returned Ok
CloseEscrow(out, slot, initializer) ==
    Outcome(out.res, out.cpis, out.tok,
            [out.escrow EXCEPT ![slot] = EmptyEscrow("closed")],
            [out.lamports EXCEPT ![initializer] = @ + RentDeposit])

\* pub fn cancel
CancelHandler(a) ==
    LET rec == escrow[a.slot]
        signers == {a.by, VaultAuthority}
        s1 == TokenTransfer(tok, a.vault, a.deposit, a.vault_authority,
                            signers, rec.initializer_amount)
        s2 == TokenClose(s1.tok, lamports, a.vault, a.initializer,
                         a.vault_authority, signers)
    IN  IF s1.err # "Ok" THEN Outcome(s1.err, 0, s1.tok, escrow, lamports)
        ELSE IF s2.err # "Ok" THEN Outcome(s2.err, 1, s2.tok, escrow, s2.lamports)
        ELSE Outcome("Ok", 2, s2.tok, escrow, s2.lamports)

\* cancel without close = initializer
CancelIx_NoClose(a) ==
    LET v == CancelAccounts(a)
        h == CancelHandler(a)
    IN  IF v # "Ok" THEN Rejected(v) ELSE h

CancelIx(a) ==
    LET v == CancelAccounts(a)
        h == CancelHandler(a)
    IN  IF v # "Ok" THEN Rejected(v)
        ELSE IF h.res # "Ok" THEN h
        ELSE CloseEscrow(h, a.slot, a.initializer)

CancelOut(a) == Commit(CancelIx(a))

(***************************************************************************)
(* exchange.  a = [by, taker, taker_deposit, taker_receive,                *)
(* initializer_deposit, initializer_receive, initializer, slot, vault,     *)
(* vault_authority].                                                       *)
(***************************************************************************)
ExchangeArgs ==
    [by : Wallets, taker : Wallets,
     taker_deposit : {"tB", "iB"}, taker_receive : {"tA", "iB"},
     initializer_deposit : {"iA", "iB"}, initializer_receive : {"iB", "tB"},
     initializer : Wallets, slot : Slots,
     vault : {VaultAccount, "xA"}, vault_authority : Authorities]

\* #[derive(Accounts)] struct Exchange, without the checks named in skip
ExchangeAccountsExcept(a, skip) ==
    LET rec == escrow[a.slot]
    IN  IF ~tok[a.taker_deposit].live \/ ~tok[a.taker_receive].live
           \/ ~tok[a.initializer_deposit].live
           \/ ~tok[a.initializer_receive].live THEN "RecordNotFound"
        ELSE IF rec.st # "open" THEN "RecordNotFound"
        ELSE IF ~tok[a.vault].live THEN "RecordNotFound"
        ELSE IF a.taker # a.by THEN "Unauthorized"
        ELSE IF "amount" \notin skip
                /\ ~(rec.taker_amount <= tok[a.taker_deposit].amount)
             THEN "InsufficientFunds"
        ELSE IF ~(rec.initializer_deposit_token_account = a.initializer_deposit)
             THEN "AccountMismatch"
        ELSE IF ~(rec.initializer_receive_token_account = a.initializer_receive)
             THEN "AccountMismatch"
        ELSE IF ~(rec.initializer_key = a.initializer) THEN "AccountMismatch"
        ELSE "Ok"

ExchangeAccounts_NoAmountCheck(a) == ExchangeAccountsExcept(a, {"amount"})

ExchangeAccounts(a) == ExchangeAccountsExcept(a, {})

\* pub fn exchange
ExchangeHandler(a) ==
    LET rec == escrow[a.slot]
        signers == {a.by, VaultAuthority}
        s1 == TokenTransfer(tok, a.taker_deposit, a.initializer_receive,
                            a.taker, {a.by}, rec.taker_amount)
        s2 == TokenTransfer(s1.tok, a.vault, a.taker_receive,
                            a.vault_authority, signers, rec.initializer_amount)
        s3 == TokenClose(s2.tok, lamports, a.vault, a.initializer,
                         a.vault_authority, signers)
    IN  IF s1.err # "Ok" THEN Outcome(s1.err, 0, s1.tok, escrow, lamports)
        ELSE IF s2.err # "Ok" THEN Outcome(s2.err, 1, s2.tok, escrow, lamports)
        ELSE IF s3.err # "Ok" THEN Outcome(s3.err, 2, s3.tok, escrow, s3.lamports)
        ELSE Outcome("Ok", 3, s3.tok, escrow, s3.lamports)

ExchangeIx(a) ==
    LET v == ExchangeAccounts(a)
        h == ExchangeHandler(a)
    IN  IF v # "Ok" THEN Rejected(v)
        ELSE IF h.res # "Ok" THEN h
        ELSE CloseEscrow(h, a.slot, a.initializer)

ExchangeOut(a) == Commit(ExchangeIx(a))

(***************************************************************************)
(* Token transfers that wallets make on their own, outside the program:    *)
(* into the vault address or out of it.                                    *)
(***************************************************************************)
UserTransferArgs ==
    {a \in [by : Wallets, from : {VaultAccount, "xA"}, to : {VaultAccount, "xA"},
             amount : 1..MaxAmount] : a.from # a.to}

UserTransferOut(a) ==
    LET s == TokenTransfer(tok, a.from, a.to, a.by, {a.by}, a.amount)
    IN  Commit(Outcome(s.err, IF s.err = "Ok" THEN 1 ELSE 0, s.tok, escrow, lamports))

(***************************************************************************)
(* The state machine.                                                      *)
(***************************************************************************)
Init ==
    /\ tok = [x \in TokAccts |->
                CASE x = "iA" -> TokenAcct("A", "alice", MaxAmount)
                  [] x = "iB" -> TokenAcct("B", "alice", 0)
                  [] x = "tA" -> TokenAcct("A", "bob", 0)
                  [] x = "tB" -> TokenAcct("B", "bob", MaxAmount)
                  [] x = "xA" -> TokenAcct("A", "bob", 1)
                  [] x = "yA" -> TokenAcct("A", "alice", 1)
                  [] OTHER -> NoAccount]
    /\ escrow = [s \in Slots |-> EmptyEscrow("zero")]
    /\ lamports = [w \in Wallets |-> InitLamports]
    /\ last = [op |-> "none", res |-> "Ok", cpis |-> 0, by |-> "none", slot |-> "none"]

Apply(op, by, slot, out) ==
    /\ tok' = out.tok
    /\ escrow' = out.escrow
    /\ lamports' = out.lamports
    /\ last' = [op |-> op, res |-> out.res, cpis |-> out.cpis, by |-> by, slot |-> slot]

Initialize == \E a \in InitializeArgs : Apply("initialize", a.by, a.slot, InitializeOut(a))

Cancel == \E a \in CancelArgs : Apply("cancel", a.by, a.slot, CancelOut(a))

Exchange == \E a \in ExchangeArgs : Apply("exchange", a.by, a.slot, ExchangeOut(a))

UserTransfer == \E a \in UserTransferArgs : Apply("transfer", a.by, "none", UserTransferOut(a))

Next == Initialize \/ Cancel \/ Exchange \/ UserTransfer

Spec == Init /\ [][Next]_vars

\* the program alone: every step is one of its three instructions
NextProgram == Initialize \/ Cancel \/ Exchange

SpecProgram == Init /\ [][NextProgram]_vars

TypeOK ==
    /\ tok \in [TokAccts -> [live : BOOLEAN, mint : Mints \cup {"none"},
                             owner : Authorities \cup {"none"}, amount : Nat]]
    /\ escrow \in [Slots -> [st : {"zero", "open", "closed"},
                             initializer_key : Wallets \cup {"none"},
                             initializer_deposit_token_account : TokAccts \cup {"none"},
                             initializer_receive_token_account : TokAccts \cup {"none"},
                             initializer_amount : Nat, taker_amount : Nat]]
    /\ lamports \in [Wallets -> Nat]

(***************************************************************************)
(* Vocabulary of the properties.                                           *)
(***************************************************************************)
Operations == {"cancel", "exchange"}

Open(s) == escrow[s].st = "open"

\* an outcome that left every account as it was
Untouched(out) ==
    /\ out.tok = tok
    /\ out.escrow = escrow
    /\ out.lamports = lamports

\* the units credited to account x by a transfer of n units from src to dst
Flow(x, src, dst, n) ==
    (IF x = dst THEN n ELSE 0) - (IF x = src THEN n ELSE 0)

(***************************************************************************)
(* C1  Exactly-once consumption.  A cancel or exchange that succeeds on a  *)
(* Record finds it open and leaves it closed; a closed Record stays        *)
(* closed, and every cancel or exchange attempted on it fails with         *)
(* RecordNotFound.  Hence cancel and exchange never both succeed on one    *)
(* Record and neither succeeds twice.                                      *)
(***************************************************************************)
ExactlyOnceStep ==
    /\ \A s \in Slots :
          escrow[s].st = "closed" =>
             /\ escrow'[s].st = "closed"
             /\ (last'.op \in Operations /\ last'.slot = s)
                   => last'.res = "RecordNotFound"
    /\ (last'.op \in Operations /\ last'.res = "Ok") =>
          /\ escrow[last'.slot].st = "open"
          /\ escrow'[last'.slot].st = "closed"

ExactlyOnce == [][ExactlyOnceStep]_vars

\* a cancel or exchange was attempted on a consumed Record and was refused
ExactlyOnceWitness ==
    /\ last.op \in Operations
    /\ last.res = "RecordNotFound"
    /\ escrow[last.slot].st = "closed"

(***************************************************************************)
(* C2  No unauthorized drain.  The Vault, while it exists, is owned by the *)
(* protocol-derived authority, and its balance decreases only in a         *)
(* successful cancel signed by the Record's initializer_key that credits   *)
(* the Record's deposit account, or in a successful exchange that credits  *)
(* taker_amount to the Record's receive account.                           *)
(***************************************************************************)
DrainedByCancel ==
    LET rec == escrow[last'.slot]
        dep == rec.initializer_deposit_token_account
    IN  /\ last'.op = "cancel"
        /\ last'.res = "Ok"
        /\ rec.st = "open"
        /\ last'.by = rec.initializer_key
        /\ tok'[dep].amount = tok[dep].amount + rec.initializer_amount
        /\ tok[VaultAccount].amount = rec.initializer_amount

DrainedByExchange ==
    LET rec == escrow[last'.slot]
        rcv == rec.initializer_receive_token_account
    IN  /\ last'.op = "exchange"
        /\ last'.res = "Ok"
        /\ rec.st = "open"
        /\ tok[VaultAccount].amount = rec.initializer_amount
        /\ \E src \in UserAccts, dst \in UserAccts :
              \A x \in UserAccts :
                 tok'[x].amount = tok[x].amount
                                  + Flow(x, src, rcv, rec.taker_amount)
                                  + Flow(x, VaultAccount, dst, rec.initializer_amount)

NoUnauthorizedDrainStep ==
    /\ tok'[VaultAccount].live => tok'[VaultAccount].owner = VaultAuthority
    /\ tok'[VaultAccount].amount < tok[VaultAccount].amount
          => DrainedByCancel \/ DrainedByExchange

NoUnauthorizedDrain == [][NoUnauthorizedDrainStep]_vars

\* an exchange has paid a funded Vault out to the taker
NoUnauthorizedDrainWitness ==
    /\ last.op = "exchange"
    /\ last.res = "Ok"
    /\ ~tok[VaultAccount].live
    /\ tok["tA"].amount > 0
    /\ tok["xA"].amount > 0

(***************************************************************************)
(* C3  Conservation.  No initialize, cancel or exchange, successful or     *)
(* failed, changes the sum of the balances of the Record's deposit         *)
(* account, the Vault and the taker's receiving account, and no exchange   *)
(* changes the sum of the balances of the taker's paying account and the   *)
(* Record's receive account (the two groups of accounts being disjoint).   *)
(***************************************************************************)
RECURSIVE Total(_, _)
Total(t, S) ==
    IF S = {} THEN 0
    ELSE LET x == CHOOSE y \in S : TRUE
         IN  t[x].amount + Total(t, S \ {x})

Conserved(out, S) == Total(out.tok, S) = Total(tok, S)

\* the accounts of the offered asset and of the requested asset in an exchange
AssetA(a) ==
    {escrow[a.slot].initializer_deposit_token_account, VaultAccount,
     a.taker_receive}

AssetB(a) ==
    {a.taker_deposit, escrow[a.slot].initializer_receive_token_account}

Conservation ==
    /\ \A a \in InitializeArgs :
          Conserved(InitializeOut(a), {a.deposit, VaultAccount})
    /\ \A a \in CancelArgs :
          Open(a.slot) =>
             Conserved(CancelOut(a),
                       {escrow[a.slot].initializer_deposit_token_account,
                        VaultAccount})
    /\ \A a \in ExchangeArgs :
          (Open(a.slot) /\ AssetA(a) \cap AssetB(a) = {}) =>
             /\ Conserved(ExchangeOut(a), AssetA(a))
             /\ Conserved(ExchangeOut(a), AssetB(a))

(***************************************************************************)
(* C4  Exchange atomicity.  Every exchange on an open Record either moves  *)
(* nothing, or moves both legs: taker_amount from the taker's paying       *)
(* account to the Record's receive account and initializer_amount from the *)
(* Vault to the taker's receiving account.                                 *)
(***************************************************************************)
BothLegs(a, out) ==
    LET rec == escrow[a.slot]
    IN  \A x \in TokAccts :
           out.tok[x].amount =
              tok[x].amount
              + Flow(x, a.taker_deposit, rec.initializer_receive_token_account,
                     rec.taker_amount)
              + Flow(x, VaultAccount, a.taker_receive, rec.initializer_amount)

NeitherLeg(out) == \A x \in TokAccts : out.tok[x].amount = tok[x].amount

ExchangeAtomic ==
    \A a \in ExchangeArgs :
       Open(a.slot) =>
          LET out == ExchangeOut(a)
          IN  IF out.res = "Ok" THEN BothLegs(a, out) ELSE NeitherLeg(out)

(***************************************************************************)
(* C5  Cancel authorization.  A cancel on an open Record signed by a       *)
(* wallet other than the Record's initializer_key fails with Unauthorized  *)
(* and changes no account.                                                 *)
(***************************************************************************)
CancelUnauthorized ==
    \A a \in CancelArgs :
       (Open(a.slot) /\ a.by # escrow[a.slot].initializer_key) =>
          /\ CancelOut(a).res = "Unauthorized"
          /\ Untouched(CancelOut(a))

\* a wallet other than the initializer has tried to cancel an open Record
CancelUnauthorizedWitness ==
    /\ last.op = "cancel"
    /\ last.res = "Unauthorized"
    /\ Open(last.slot)
    /\ last.by # escrow[last.slot].initializer_key
    /\ tok[VaultAccount].amount > 0

(***************************************************************************)
(* C6  Exchange needs no initializer signature.  An exchange on an open    *)
(* Record signed by the taker alone succeeds when it supplies the Record's *)
(* accounts, the Vault and the vault authority, the taker's own accounts   *)
(* of the two mints, and a paying account holding taker_amount or more.    *)
(***************************************************************************)
WellFormedExchange(a) ==
    LET rec == escrow[a.slot]
    IN  /\ Open(a.slot)
        /\ a.by = a.taker
        /\ a.by # rec.initializer_key
        /\ a.initializer = rec.initializer_key
        /\ a.initializer_deposit = rec.initializer_deposit_token_account
        /\ a.initializer_receive = rec.initializer_receive_token_account
        /\ a.vault = VaultAccount
        /\ a.vault_authority = VaultAuthority
        /\ tok[a.taker_deposit].owner = a.taker
        /\ tok[a.taker_receive].owner = a.taker
        /\ tok[a.taker_deposit].mint = tok[a.initializer_receive].mint
        /\ tok[a.taker_receive].mint = tok[VaultAccount].mint
        /\ tok[a.taker_deposit].amount >= rec.taker_amount

ExchangeWithoutInitializer ==
    \A a \in ExchangeArgs :
       WellFormedExchange(a) => ExchangeOut(a).res = "Ok"

\* the same, for a Vault that holds exactly the Record's initializer_amount
ExchangeWithoutInitializerExactVault ==
    \A a \in ExchangeArgs :
       (WellFormedExchange(a)
          /\ tok[VaultAccount].amount = escrow[a.slot].initializer_amount)
       => ExchangeOut(a).res = "Ok"

(***************************************************************************)
(* C7  Exchange account cross-check.  An exchange on an open Record,       *)
(* signed by a taker whose paying account is funded, that supplies an      *)
(* initializer deposit account, initializer receive account or initializer *)
(* other than the Record's, or a vault other than the Vault, fails with    *)
(* AccountMismatch and changes no account.                                 *)
(***************************************************************************)
FundedTaker(a) ==
    /\ Open(a.slot)
    /\ a.by = a.taker
    /\ tok[a.taker_deposit].amount >= escrow[a.slot].taker_amount

StoredMismatch(a) ==
    LET rec == escrow[a.slot]
    IN  \/ a.initializer_deposit # rec.initializer_deposit_token_account
        \/ a.initializer_receive # rec.initializer_receive_token_account
        \/ a.initializer # rec.initializer_key

ExchangeCrossCheck ==
    \A a \in ExchangeArgs :
       (FundedTaker(a) /\ (StoredMismatch(a) \/ a.vault # VaultAccount)) =>
          /\ ExchangeOut(a).res = "AccountMismatch"
          /\ Untouched(ExchangeOut(a))

\* the same, for the three references the Record stores
ExchangeCrossCheckStored ==
    \A a \in ExchangeArgs :
       (FundedTaker(a) /\ StoredMismatch(a)) =>
          /\ ExchangeOut(a).res = "AccountMismatch"
          /\ Untouched(ExchangeOut(a))

(***************************************************************************)
(* C8  Initialize precondition.  An initialize signed by the initializer   *)
(* whose initializer_amount exceeds the balance of the deposit account     *)
(* fails with InsufficientFunds and changes no account.                    *)
(***************************************************************************)
Overdrawn(a) ==
    /\ a.by = a.initializer
    /\ a.initializer_amount > tok[a.deposit].amount

ExchangeInsufficient ==
    \A a \in ExchangeArgs :
       (Open(a.slot) /\ a.by = a.taker
          /\ tok[a.taker_deposit].amount < escrow[a.slot].taker_amount) =>
          LET out == ExchangeOut(a)
          IN  /\ out.res = "InsufficientFunds"
              /\ out.escrow[a.slot] = escrow[a.slot]
              /\ out.tok[VaultAccount] = tok[VaultAccount]
              /\ tok[VaultAccount].owner = VaultAuthority
              /\ Untouched(out)

\* an underfunded exchange was refused and the offer is still open
ExchangeInsufficientWitness ==
    /\ last.op = "exchange"
    /\ last.res = "InsufficientFunds"
    /\ Open(last.slot)
    /\ escrow[last.slot].taker_amount > 0
    /\ tok[VaultAccount].amount = escrow[last.slot].initializer_amount

(***************************************************************************)
(* C10  Cancel account cross-check.  A cancel on an open Record signed by  *)
(* the Record's initializer that supplies a deposit account other than the *)
(* Record's fails with AccountMismatch and changes no account.             *)
(***************************************************************************)
CancelMismatch ==
    \A a \in CancelArgs :
       (Open(a.slot) /\ a.by = escrow[a.slot].initializer_key
          /\ a.initializer = a.by
          /\ a.deposit # escrow[a.slot].initializer_deposit_token_account) =>
          /\ CancelOut(a).res = "AccountMismatch"
          /\ Untouched(CancelOut(a))

\* the initializer's cancel was refused for its deposit account
CancelMismatchWitness ==
    /\ last.op = "cancel"
    /\ last.res = "AccountMismatch"
    /\ Open(last.slot)
    /\ last.by = escrow[last.slot].initializer_key
    /\ tok[VaultAccount].amount > 0

(***************************************************************************)
(* C11  Initialize postcondition.  A successful initialize leaves the      *)
(* Vault holding exactly initializer_amount and owned by the               *)
(* protocol-derived authority, not by the initializer, the deposit account *)
(* debited by initializer_amount, and the Record open with the signer as   *)
(* initializer_key, the two supplied account references and the two        *)
(* amounts as given.                                                       *)
(***************************************************************************)
InitializePostcondition ==
    \A a \in InitializeArgs :
       LET out == InitializeOut(a)
       IN  out.res = "Ok" =>
              /\ out.tok[VaultAccount].live
              /\ out.tok[VaultAccount].amount = a.initializer_amount
              /\ out.tok[VaultAccount].owner = VaultAuthority
              /\ out.tok[VaultAccount].owner # a.initializer
              /\ out.tok[a.deposit].amount
                    = tok[a.deposit].amount - a.initializer_amount
              /\ out.escrow[a.slot] =
                    EscrowAccount("open", a.by, a.deposit, a.receive,
                                  a.initializer_amount, a.taker_amount)

\* an initialize has funded the Vault with a positive amount
InitializePostconditionWitness ==
    /\ last.op = "initialize"
    /\ last.res = "Ok"
    /\ escrow[last.slot].initializer_amount > 0
    /\ tok[VaultAccount].amount = escrow[last.slot].initializer_amount
    /\ tok[VaultAccount].owner = VaultAuthority

(***************************************************************************)
(* C12  Record/Vault coupling.  In every state reached by initialize,      *)
(* cancel and exchange alone, each open Record has its Vault, holding      *)
(* exactly the Record's initializer_amount, and the Vault exists only      *)
(* while a Record is open.                                                 *)
(***************************************************************************)
RecordVaultCoupling ==
    /\ \A s \in Slots :
          Open(s) =>
             /\ tok[VaultAccount].live
             /\ tok[VaultAccount].amount = escrow[s].initializer_amount
    /\ tok[VaultAccount].live => \E s \in Slots : Open(s)

(***************************************************************************)
(* C13  Lifecycle.  A Record moves only from zero (uninitialized) to open  *)
(* and from open to closed.  It becomes open exactly in a successful       *)
(* initialize on its slot, and stops being open exactly in a successful    *)
(* cancel or exchange on its slot, in that one step.  A closed Record      *)
(* stays closed.                                                           *)
(***************************************************************************)
LifecycleStep ==
    \A s \in Slots :
       /\ escrow[s].st = "zero" => escrow'[s].st \in {"zero", "open"}
       /\ escrow[s].st = "open" => escrow'[s].st \in {"open", "closed"}
       /\ escrow[s].st = "closed" => escrow'[s].st = "closed"
       /\ (~Open(s) /\ escrow'[s].st = "open")
             <=> (last'.op = "initialize" /\ last'.res = "Ok" /\ last'.slot = s)
       /\ (Open(s) /\ escrow'[s].st # "open")
             <=> (last'.op \in Operations /\ last'.res = "Ok" /\ last'.slot = s)

Lifecycle == [][LifecycleStep]_vars

\* one offer went through its whole life and a new one was opened after it
LifecycleWitness ==
    /\ last.op = "initialize"
    /\ last.res = "Ok"
    /\ \E s \in Slots : s # last.slot /\ escrow[s].st = "closed"
    /\ Open(last.slot)

(***************************************************************************)
(* C14  Successful swap outcome.  In the state a successful initialize     *)
(* leaves (deposit account debited by initializer_amount, which the Vault  *)
(* holds), every successful exchange on that Record credits the taker's    *)
(* receiving account initializer_amount from the Vault, moves taker_amount *)
(* from the taker's paying account to the Record's receive account,        *)
(* changes no other balance, closes the Vault and closes the Record.       *)
(***************************************************************************)
Swapped(a, out) ==
    /\ BothLegs(a, out)
    /\ ~out.tok[VaultAccount].live
    /\ out.escrow[a.slot].st = "closed"

SwapOutcome ==
    (last.op = "initialize" /\ last.res = "Ok") =>
       \A a \in ExchangeArgs :
          (a.slot = last.slot /\ ExchangeOut(a).res = "Ok")
             => Swapped(a, ExchangeOut(a))

\* the same, for an exchange that is given the Vault
SwapOutcomeOfVault ==
    (last.op = "initialize" /\ last.res = "Ok") =>
       \A a \in ExchangeArgs :
          (a.slot = last.slot /\ a.vault = VaultAccount
             /\ ExchangeOut(a).res = "Ok")
             => Swapped(a, ExchangeOut(a))

(***************************************************************************)
(* C15  Initialize/cancel round trip.  In the state a successful           *)
(* initialize leaves, every successful cancel of that Record credits       *)
(* initializer_amount back to the Record's deposit account, changes no     *)
(* other user balance, closes the Vault and closes the Record; and in the  *)
(* state a successful cancel leaves, every exchange on that Record fails   *)
(* with RecordNotFound.                                                    *)
(***************************************************************************)
Returned(a, out) ==
    LET rec == escrow[a.slot]
        dep == rec.initializer_deposit_token_account
    IN  /\ out.tok[dep].amount = tok[dep].amount + rec.initializer_amount
        /\ \A x \in UserAccts \ {dep} : out.tok[x] = tok[x]
        /\ ~out.tok[VaultAccount].live
        /\ out.escrow[a.slot].st = "closed"

ExchangeAfterCancel ==
    (last.op = "cancel" /\ last.res = "Ok") =>
       \A a \in ExchangeArgs :
          a.slot = last.slot => ExchangeOut(a).res = "RecordNotFound"

RoundTrip ==
    /\ (last.op = "initialize" /\ last.res = "Ok") =>
          \A a \in CancelArgs :
             (a.slot = last.slot /\ CancelOut(a).res = "Ok")
                => Returned(a, CancelOut(a))
    /\ ExchangeAfterCancel

\* the same, for a cancel that is given the Vault
RoundTripOfVault ==
    /\ (last.op = "initialize" /\ last.res = "Ok") =>
          \A a \in CancelArgs :
             (a.slot = last.slot /\ a.vault = VaultAccount
                /\ CancelOut(a).res = "Ok")
                => Returned(a, CancelOut(a))
    /\ ExchangeAfterCancel

(***************************************************************************)
(* C16  Validation precedes movement.  Every initialize, cancel or         *)
(* exchange that fails has failed before any of its token-program calls    *)
(* (set_authority, transfer, close_account) was performed.                 *)
(***************************************************************************)
FailedInValidation(out) == out.res # "Ok" => out.cpis = 0

ValidationFirst ==
    /\ \A a \in InitializeArgs : FailedInValidation(InitializeOut(a))
    /\ \A a \in CancelArgs : FailedInValidation(CancelOut(a))
    /\ \A a \in ExchangeArgs : FailedInValidation(ExchangeOut(a))

(***************************************************************************)
(* C17  Cancel is always available.  In every reachable state, a cancel of *)
(* an open Record signed by the Record's initializer_key that supplies the *)
(* Record's deposit account, the Vault and the vault authority succeeds.   *)
(***************************************************************************)
InitializerCancel(a) ==
    LET rec == escrow[a.slot]
    IN  /\ Open(a.slot)
        /\ a.by = rec.initializer_key
        /\ a.initializer = a.by
        /\ a.deposit = rec.initializer_deposit_token_account
        /\ a.vault = VaultAccount
        /\ a.vault_authority = VaultAuthority

CancelAvailable ==
    \A a \in CancelArgs : InitializerCancel(a) => CancelOut(a).res = "Ok"

\* the same, for a Vault that holds exactly the Record's initializer_amount
CancelAvailableExactVault ==
    \A a \in CancelArgs :
       (InitializerCancel(a)
          /\ tok[VaultAccount].amount = escrow[a.slot].initializer_amount)
       => CancelOut(a).res = "Ok"

(***************************************************************************)
(* C18  One Record per Vault.  At most one Record is open at a time; an    *)
(* initialize attempted while the Vault exists fails and changes no        *)
(* account, so an initialize succeeds only when no Vault exists; and the   *)
(* Vault stops existing only in a successful cancel or exchange.           *)
(***************************************************************************)
OneRecordStep ==
    /\ Cardinality({s \in Slots : escrow'[s].st = "open"}) <= 1
    /\ (tok[VaultAccount].live /\ last'.op = "initialize") =>
          /\ last'.res # "Ok"
          /\ tok' = tok
          /\ escrow' = escrow
          /\ lamports' = lamports
    /\ (tok[VaultAccount].live /\ ~tok'[VaultAccount].live) =>
          /\ last'.op \in Operations
          /\ last'.res = "Ok"

OneRecord == [][OneRecordStep]_vars

\* an initialize was refused because the Vault of an open Record exists
OneRecordWitness ==
    /\ last.op = "initialize"
    /\ last.res = "AccountInUse"
    /\ tok[VaultAccount].live
    /\ \E s \in Slots : Open(s) /\ s # last.slot

(***************************************************************************)
(* C19  Record immutability.  While a Record stays open, no step,          *)
(* successful or failed, changes any of its fields; an initialize on a     *)
(* slot that holds an open Record fails and leaves every Record as it was; *)
(* and the initializer_amount a successful initialize stores is the amount *)
(* that step moved from the deposit account into the Vault.                *)
(***************************************************************************)
ImmutableStep ==
    /\ \A s \in Slots :
          (Open(s) /\ escrow'[s].st = "open") => escrow'[s] = escrow[s]
    /\ (last'.op = "initialize" /\ Open(last'.slot)) =>
          /\ last'.res # "Ok"
          /\ escrow' = escrow
    /\ (last'.op = "initialize" /\ last'.res = "Ok") =>
          LET rec == escrow'[last'.slot]
              dep == rec.initializer_deposit_token_account
          IN  /\ tok'[VaultAccount].amount - tok[VaultAccount].amount
                    = rec.initializer_amount
              /\ tok[dep].amount - tok'[dep].amount = rec.initializer_amount

RecordImmutable == [][ImmutableStep]_vars

\* an initialize on the slot of an open Record was refused
RecordImmutableWitness ==
    /\ last.op = "initialize"
    /\ last.res # "Ok"
    /\ Open(last.slot)
    /\ escrow[last.slot].initializer_amount > 0
    /\ tok[VaultAccount].amount = escrow[last.slot].initializer_amount

(***************************************************************************)
(* C20  Residual deposit destination.  Every successful cancel and every   *)
(* successful exchange of an open Record closes the Vault and the Record   *)
(* and credits the deposit of both to the Record's initializer_key and to  *)
(* no other wallet.                                                        *)
(***************************************************************************)
DepositsReturned(a, out) ==
    /\ ~out.tok[VaultAccount].live
    /\ out.escrow[a.slot].st = "closed"
    /\ out.lamports =
          [lamports EXCEPT ![escrow[a.slot].initializer_key] = @ + 2 * RentDeposit]

ResidualToInitializer ==
    /\ \A a \in CancelArgs :
          (Open(a.slot) /\ CancelOut(a).res = "Ok")
             => DepositsReturned(a, CancelOut(a))
    /\ \A a \in ExchangeArgs :
          (Open(a.slot) /\ ExchangeOut(a).res = "Ok")
             => DepositsReturned(a, ExchangeOut(a))

\* the same, for a cancel or exchange that is given the Vault
ResidualToInitializerOfVault ==
    /\ \A a \in CancelArgs :
          (Open(a.slot) /\ a.vault = VaultAccount /\ CancelOut(a).res = "Ok")
             => DepositsReturned(a, CancelOut(a))
    /\ \A a \in ExchangeArgs :
          (Open(a.slot) /\ a.vault = VaultAccount /\ ExchangeOut(a).res = "Ok")
             => DepositsReturned(a, ExchangeOut(a))

====
